---- MODULE Spec2Model ----
(***************************************************************************)
(* A model of the pivot and bucketing engine (src/pivot_engine.py) and of   *)
(* the audience filter of the data generator (src/data_generator.py).      *)
(*                                                                         *)
(* Numbers are integers.  churn_risk_score, a float in [0,1] in the data,   *)
(* is carried in units of 0.1.  A text (a custom range string) is a        *)
(* sequence of one-character strings.  Every cell of a column, raw or      *)
(* bucketed, is a record [kind, lo, hi, name, text]:                       *)
(*    num       a raw number lo (= hi)                                     *)
(*    str       a raw string name                                          *)
(*    bool      a raw boolean, lo = 1 for True and 0 for False             *)
(*    interval  the pandas Interval (lo, hi] that pd.cut makes without     *)
(*              labels                                                     *)
(*    label     the category called name (a built-in label) or text (a     *)
(*              token of a custom range string)                            *)
(*    date      a raw timestamp, lo its day number (days since 1970-01-01) *)
(*    period    a calendar period: name its frequency (Y, M, Q, W) and lo  *)
(*              its number (the year, 12*year + month - 1,                 *)
(*              4*year + quarter - 1, the day number of the week's Monday) *)
(*    nan       no bucket (NaN)                                            *)
(***************************************************************************)
EXTENDS Integers, Sequences, FiniteSets, TLC

VARIABLES bucket_definitions, df1, df2, call, result, prev

vars == <<bucket_definitions, df1, df2, call, result, prev>>

(***************************************************************************)
(* Bounds of the model.                                                    *)
(***************************************************************************)
MaxRows == 2
MaxSeriesLen == 2
MaxTokens == 3
MaxMetricRows == 4

(***************************************************************************)
(* Generic helpers.                                                        *)
(***************************************************************************)
Range(s) == {s[i] : i \in 1..Len(s)}

SeqsUpTo(S, n) == UNION {[1..k -> S] : k \in 0..n}

RECURSIVE SumSeq(_)
SumSeq(s) == IF s = <<>> THEN 0 ELSE Head(s) + SumSeq(Tail(s))

RECURSIVE SumOver(_, _)
SumOver(S, f) ==
    IF S = {} THEN 0
    ELSE LET x == CHOOSE x \in S : TRUE IN f[x] + SumOver(S \ {x}, f)

(***************************************************************************)
(* Cells of a column.                                                      *)
(***************************************************************************)
Num(v) == [kind |-> "num", lo |-> v, hi |-> v, name |-> "", text |-> <<>>]
Str(s) == [kind |-> "str", lo |-> 0, hi |-> 0, name |-> s, text |-> <<>>]
Bool(b) == [kind |-> "bool", lo |-> IF b THEN 1 ELSE 0, hi |-> IF b THEN 1 ELSE 0,
            name |-> "", text |-> <<>>]
Interval(a, b) == [kind |-> "interval", lo |-> a, hi |-> b, name |-> "", text |-> <<>>]
Label(s) == [kind |-> "label", lo |-> 0, hi |-> 0, name |-> s, text |-> <<>>]
TextLabel(t) == [kind |-> "label", lo |-> 0, hi |-> 0, name |-> "", text |-> t]
Date(d) == [kind |-> "date", lo |-> d, hi |-> d, name |-> "", text |-> <<>>]
Period(f, d) == [kind |-> "period", lo |-> d, hi |-> d, name |-> f, text |-> <<>>]
NaN == [kind |-> "nan", lo |-> 0, hi |-> 0, name |-> "", text |-> <<>>]

IsNumeric(series) == \A i \in 1..Len(series) : series[i].kind = "num"
IsDatetime(series) == series # <<>> /\ \A i \in 1..Len(series) : series[i].kind = "date"

\* What a bucketing step hands back: a column, or the exception it raised.
Returned(col) == [err |-> "", col |-> col]
Raised(e) == [err |-> e, col |-> <<>>]

\* None as a bucket type: a value that is no strategy name.
PyNone == "<None>"

\* float('inf') as a bin edge: above every number of the model.
Inf == 1000000

(***************************************************************************)
(* pandas.cut and pandas.qcut, as the engine calls them.  Bin edges are a  *)
(* sequence of numbers, labels a sequence of cells (<<>> for labels=None). *)
(***************************************************************************)
Monotonic(bins) == \A i \in 1..(Len(bins) - 1) : bins[i] <= bins[i + 1]

Unique(s) == \A i, j \in 1..Len(s) : i # j => s[i] # s[j]

\* The k-th smallest element of a non-empty sequence of numbers.
Kth(s, k) ==
    CHOOSE v \in Range(s) :
        /\ Cardinality({i \in 1..Len(s) : s[i] < v}) < k
        /\ k <= Cardinality({i \in 1..Len(s) : s[i] <= v})

\* The distinct elements of a sequence of numbers, ascending.
UniqueSorted(s) ==
    LET S == Range(s)
    IN  [k \in 1..Cardinality(S) |->
            CHOOSE v \in S : Cardinality({w \in S : w < v}) = k - 1]

\* bins.searchsorted(x, side='left'): how many edges lie strictly below x.
SearchSortedLeft(bins, x) == Cardinality({i \in 1..Len(bins) : bins[i] < x})

\* _bins_to_cuts: values are the numbers to place, on the scale of the
\* edges; right-closed intervals.
BinsToCuts(values, numeric, bins, labels, include_lowest, duplicates) ==
    LET dup == ~Unique(bins) /\ Len(bins) # 2
        b == IF dup THEN UniqueSorted(bins) ELSE bins
        id(x) == IF include_lowest /\ Len(b) > 0 /\ x = b[1]
                 THEN 1 ELSE SearchSortedLeft(b, x)
        cell(x) == IF id(x) = 0 \/ id(x) = Len(b) THEN NaN
                   ELSE IF labels = <<>> THEN Interval(b[id(x)], b[id(x) + 1])
                   ELSE labels[id(x)]
    IN  IF dup /\ duplicates = "raise" THEN Raised("ValueError")
        ELSE IF ~numeric THEN Raised("TypeError")
        ELSE IF labels # <<>> /\ ~Unique(labels) THEN Raised("ValueError")
        ELSE IF labels # <<>> /\ Len(labels) # Len(b) - 1 THEN Raised("ValueError")
        ELSE Returned([i \in 1..Len(values) |-> cell(values[i])])

\* pd.cut without include_lowest.
pd_cut_open_lowest(series, bins, labels, include_lowest) ==
    IF ~Monotonic(bins) THEN Raised("ValueError")
    ELSE IF IsDatetime(series) THEN Raised("ValueError")
    ELSE BinsToCuts([i \in 1..Len(series) |-> series[i].lo], IsNumeric(series),
                    bins, labels, FALSE, "raise")

\* pd.cut with the values outside the edges moved onto the nearest edge.
pd_cut_clipped(series, bins, labels, include_lowest) ==
    IF ~Monotonic(bins) THEN Raised("ValueError")
    ELSE IF IsDatetime(series) THEN Raised("ValueError")
    ELSE BinsToCuts([i \in 1..Len(series) |->
                        IF series[i].lo < bins[1] THEN bins[1]
                        ELSE IF series[i].lo > bins[Len(bins)] THEN bins[Len(bins)]
                        ELSE series[i].lo],
                    IsNumeric(series), bins, labels, include_lowest, "raise")

\* Numeric edges on a datetime column: "bins must be of datetime64 dtype".
pd_cut(series, bins, labels, include_lowest) ==
    IF ~Monotonic(bins) THEN Raised("ValueError")
    ELSE IF IsDatetime(series) THEN Raised("ValueError")
    ELSE BinsToCuts([i \in 1..Len(series) |-> series[i].lo], IsNumeric(series),
                    bins, labels, include_lowest, "raise")

\* q times the k/q quantile (linear interpolation) of a non-empty sequence.
QuantileTimes(s, q, k) ==
    LET pos == (Len(s) - 1) * k
        i == pos \div q
        r == pos % q
    IN  IF r = 0 THEN q * Kth(s, i + 1)
        ELSE q * Kth(s, i + 1) + r * (Kth(s, i + 2) - Kth(s, i + 1))

\* pd.qcut(series, q, labels, duplicates): edges and values are compared on
\* the scale q * value.  The quantiles of an empty column are all NaN, which
\* collapse to one edge.
pd_qcut(series, q, labels, duplicates) ==
    IF ~(IsNumeric(series) \/ IsDatetime(series)) THEN Raised("TypeError")
    ELSE IF series = <<>> THEN Raised("ValueError")
    ELSE LET xs == [i \in 1..Len(series) |-> series[i].lo]
             bins == [k \in 1..(q + 1) |-> QuantileTimes(xs, q, k - 1)]
         IN  BinsToCuts([i \in 1..Len(xs) |-> q * xs[i]], TRUE, bins, labels,
                        TRUE, duplicates)

(***************************************************************************)
(* Texts: str.split(','), str.strip() and float() on the characters the   *)
(* model draws custom range strings from (digits, the comma, the blank,   *)
(* and letters that spell no float literal).                              *)
(***************************************************************************)
Digits == {"0", "1", "2", "3", "4", "5", "6", "7", "8", "9"}

DigitValue(c) ==
    CASE c = "0" -> 0 [] c = "1" -> 1 [] c = "2" -> 2 [] c = "3" -> 3
      [] c = "4" -> 4 [] c = "5" -> 5 [] c = "6" -> 6 [] c = "7" -> 7
      [] c = "8" -> 8 [] c = "9" -> 9

ContainsComma(t) == \E i \in 1..Len(t) : t[i] = ","

\* t.split(','): the pieces between the commas, empty pieces kept.
RECURSIVE SplitComma(_)
SplitComma(t) ==
    IF ~ContainsComma(t) THEN <<t>>
    ELSE LET i == CHOOSE i \in 1..Len(t) :
                      t[i] = "," /\ \A j \in 1..(i - 1) : t[j] # ","
         IN  <<SubSeq(t, 1, i - 1)>> \o SplitComma(SubSeq(t, i + 1, Len(t)))

\* x.strip()
Strip(t) ==
    LET keep == {i \in 1..Len(t) : t[i] # " "}
    IN  IF keep = {} THEN <<>>
        ELSE SubSeq(t, CHOOSE i \in keep : \A j \in keep : i <= j,
                       CHOOSE i \in keep : \A j \in keep : j <= i)

\* float(x) succeeds
IsFloat(t) == t # <<>> /\ \A i \in 1..Len(t) : t[i] \in Digits

\* float(x)
RECURSIVE FloatOf(_)
FloatOf(t) ==
    IF t = <<>> THEN 0
    ELSE 10 * FloatOf(SubSeq(t, 1, Len(t) - 1)) + DigitValue(t[Len(t)])

(***************************************************************************)
(* PivotEngine._apply_custom_bucketing                                     *)
(***************************************************************************)
\* The except ValueError handler: the tokens become the labels of
\* len(ranges) quantile groups.  What it raises reaches the outer handler.
CategoricalRanges(series, ranges) ==
    IF Len(ranges) > 1
    THEN LET q == pd_qcut(series, Len(ranges),
                          [i \in 1..Len(ranges) |-> TextLabel(ranges[i])], "drop")
         IN  IF q.err = "" THEN q ELSE Returned(series)
    ELSE Returned(series)

apply_custom_bucketing(series, custom_ranges) ==
    IF ContainsComma(custom_ranges)
    THEN LET split == SplitComma(custom_ranges)
             ranges == [i \in 1..Len(split) |-> Strip(split[i])]
         IN  IF \A i \in 1..Len(ranges) : IsFloat(ranges[i])
             THEN LET numeric_ranges == [i \in 1..Len(ranges) |-> FloatOf(ranges[i])]
                  IN  IF Len(numeric_ranges) >= 2
                      THEN LET c == pd_cut(series, numeric_ranges, <<>>, TRUE)
                           IN  IF c.err = "" THEN c
                               ELSE IF c.err = "ValueError"
                               THEN CategoricalRanges(series, ranges)
                               ELSE Returned(series)
                      ELSE Returned(series)
             ELSE CategoricalRanges(series, ranges)
    ELSE Returned(series)

(***************************************************************************)
(* Calendar periods of a day number (proleptic Gregorian calendar).        *)
(***************************************************************************)
CivilFromDays(z) ==
    LET zz == z + 719468
        era == zz \div 146097
        doe == zz - era * 146097
        yoe == (doe - doe \div 1460 + doe \div 36524 - doe \div 146096) \div 365
        doy == doe - (365 * yoe + yoe \div 4 - yoe \div 100)
        mp == (5 * doy + 2) \div 153
        m == IF mp < 10 THEN mp + 3 ELSE mp - 9
        y == yoe + era * 400 + (IF m <= 2 THEN 1 ELSE 0)
    IN  [year |-> y, month |-> m, day |-> doy - (153 * mp + 2) \div 5 + 1]

\* pd.to_datetime(x).dt.year and .dt.to_period(freq), then .astype(str)
ToPeriod(freq, d) ==
    LET c == CivilFromDays(d)
    IN  CASE freq = "Y" -> Period("Y", c.year)
          [] freq = "M" -> Period("M", 12 * c.year + c.month - 1)
          [] freq = "Q" -> Period("Q", 4 * c.year + (c.month - 1) \div 3)
          [] freq = "W" -> Period("W", d - ((d + 3) % 7))

(***************************************************************************)
(* PivotEngine.__init__: bucket_definitions, a dict of dicts; each in      *)
(* insertion order.                                                        *)
(***************************************************************************)
CutStrategy(name, bins, labels) ==
    [name |-> name, fn |-> "cut", bins |-> bins, labels |-> labels, q |-> 0, freq |-> ""]
QcutStrategy(name, q, labels) ==
    [name |-> name, fn |-> "qcut", bins |-> <<>>, labels |-> labels, q |-> q, freq |-> ""]
PeriodStrategy(name, freq) ==
    [name |-> name, fn |-> "period", bins |-> <<>>, labels |-> <<>>, q |-> 0, freq |-> freq]

QuartileLabels == <<"Q1 (Bottom 25%)", "Q2", "Q3", "Q4 (Top 25%)">>

InitialBucketDefinitions ==
    [d \in {"age", "days_since_signup", "days_since_last_purchase", "signup_date",
            "total_revenue", "ltv", "total_orders"} |->
      CASE d = "age" -> <<
             CutStrategy("Young/Old", <<0, 35, 100>>, <<"Young (18-35)", "Mature (35+)">>),
             CutStrategy("Three Groups", <<0, 25, 45, 100>>, <<"18-25", "26-45", "46+">>),
             CutStrategy("Fine Grained", <<0, 20, 25, 35, 50, 100>>,
                         <<"18-20", "21-25", "26-35", "36-50", "50+">>) >>
        [] d = "days_since_signup" -> <<
             CutStrategy("New/Established", <<0, 90, 10000>>,
                         <<"New (0-90 days)", "Established (90+ days)">>),
             CutStrategy("Quarterly", <<0, 90, 180, 365, 10000>>,
                         <<"0-3 months", "3-6 months", "6-12 months", "1+ years">>),
             CutStrategy("Monthly", <<0, 30, 60, 90, 180, 365, 10000>>,
                         <<"0-1 month", "1-2 months", "2-3 months", "3-6 months",
                           "6-12 months", "1+ years">>) >>
        [] d = "days_since_last_purchase" -> <<
             CutStrategy("Recent/Lapsed", <<0, 30, 10000>>,
                         <<"Recent (0-30 days)", "Lapsed (30+ days)">>),
             CutStrategy("Recency Groups", <<0, 7, 30, 90, 10000>>,
                         <<"0-7 days", "8-30 days", "31-90 days", "90+ days">>),
             CutStrategy("Weekly", <<0, 7, 14, 21, 30, 60, 90, 10000>>,
                         <<"0-1 week", "1-2 weeks", "2-3 weeks", "3-4 weeks",
                           "1-2 months", "2-3 months", "3+ months">>) >>
        [] d = "signup_date" -> <<
             PeriodStrategy("By Year", "Y"),
             PeriodStrategy("By Month", "M"),
             PeriodStrategy("By Quarter", "Q"),
             PeriodStrategy("By Week", "W") >>
        [] d = "total_revenue" -> <<
             CutStrategy("Low/Medium/High", <<0, 100, 500, Inf>>,
                         <<"Low (<$100)", "Medium ($100-500)", "High ($500+)">>),
             QcutStrategy("Quartiles", 4, QuartileLabels),
             CutStrategy("Detailed", <<0, 50, 100, 250, 500, 1000, Inf>>,
                         <<"<$50", "$50-100", "$100-250", "$250-500", "$500-1000",
                           "$1000+">>) >>
        [] d = "ltv" -> <<
             CutStrategy("Low/Medium/High", <<0, 200, 1000, Inf>>,
                         <<"Low (<$200)", "Medium ($200-1000)", "High ($1000+)">>),
             QcutStrategy("Quartiles", 4, QuartileLabels),
             CutStrategy("Detailed", <<0, 100, 250, 500, 1000, 2000, Inf>>,
                         <<"<$100", "$100-250", "$250-500", "$500-1000", "$1000-2000",
                           "$2000+">>) >>
        [] d = "total_orders" -> <<
             CutStrategy("Low/Medium/High", <<0, 2, 10, Inf>>,
                         <<"Low (0-2)", "Medium (3-10)", "High (10+)">>),
             CutStrategy("Detailed", <<0, 1, 3, 5, 10, 20, Inf>>,
                         <<"0-1", "2-3", "4-5", "6-10", "11-20", "20+">>) >>]

\* The strategy names registered for a dimension, in registration order.
Keys(defs, dimension) ==
    [i \in 1..Len(defs[dimension]) |-> defs[dimension][i].name]

Registered(defs, dimension, bucket_type) ==
    /\ dimension \in DOMAIN defs
    /\ \E i \in 1..Len(defs[dimension]) : defs[dimension][i].name = bucket_type

Lookup(defs, dimension, bucket_type) ==
    LET i == CHOOSE i \in 1..Len(defs[dimension]) :
                 defs[dimension][i].name = bucket_type
    IN  defs[dimension][i]

Labels(names) == [i \in 1..Len(names) |-> Label(names[i])]

\* Calling a registered lambda on a column.
ApplyStrategy(strategy, series) ==
    CASE strategy.fn = "cut" ->
           pd_cut(series, strategy.bins, Labels(strategy.labels), FALSE)
      [] strategy.fn = "qcut" ->
           pd_qcut(series, strategy.q, Labels(strategy.labels), "raise")
      [] strategy.fn = "period" ->
           IF IsDatetime(series) \/ series = <<>>
           THEN Returned([i \in 1..Len(series) |-> ToPeriod(strategy.freq, series[i].lo)])
           ELSE Raised("TypeError")

(***************************************************************************)
(* PivotEngine.get_bucket_options and PivotEngine.apply_bucketing.  A text *)
(* argument that is None is the empty text: both are falsy.                *)
(***************************************************************************)
\* The registered names listed last to first.
get_bucket_options_reversed(defs, dimension) ==
    IF dimension \in DOMAIN defs
    THEN LET keys == Keys(defs, dimension)
         IN  <<"No Bucketing">> \o [i \in 1..Len(keys) |-> keys[Len(keys) + 1 - i]]
                 \o <<"Custom Buckets">>
    ELSE <<"No Bucketing", "Custom Buckets">>

get_bucket_options(defs, dimension) ==
    IF dimension \in DOMAIN defs
    THEN <<"No Bucketing">> \o Keys(defs, dimension) \o <<"Custom Buckets">>
    ELSE <<"No Bucketing", "Custom Buckets">>

\* 'Custom Buckets' without a range string falling back on the ranges 1,3.
apply_bucketing_default_ranges(defs, series, dimension, bucket_type, custom_ranges) ==
    IF bucket_type = "No Bucketing" \/ bucket_type = PyNone
    THEN Returned(series)
    ELSE IF bucket_type = "Custom Buckets"
    THEN apply_custom_bucketing(series, IF custom_ranges # <<>> THEN custom_ranges
                                        ELSE <<"1", ",", "3">>)
    ELSE IF Registered(defs, dimension, bucket_type)
    THEN ApplyStrategy(Lookup(defs, dimension, bucket_type), series)
    ELSE Returned(series)

\* The registry indexed without the membership test.
apply_bucketing_unchecked(defs, series, dimension, bucket_type, custom_ranges) ==
    IF bucket_type = "No Bucketing" \/ bucket_type = PyNone
    THEN Returned(series)
    ELSE IF bucket_type = "Custom Buckets" /\ custom_ranges # <<>>
    THEN apply_custom_bucketing(series, custom_ranges)
    ELSE IF Registered(defs, dimension, bucket_type)
    THEN ApplyStrategy(Lookup(defs, dimension, bucket_type), series)
    ELSE Raised("KeyError")

apply_bucketing(defs, series, dimension, bucket_type, custom_ranges) ==
    IF bucket_type = "No Bucketing" \/ bucket_type = PyNone
    THEN Returned(series)
    ELSE IF bucket_type = "Custom Buckets" /\ custom_ranges # <<>>
    THEN apply_custom_bucketing(series, custom_ranges)
    ELSE IF Registered(defs, dimension, bucket_type)
    THEN ApplyStrategy(Lookup(defs, dimension, bucket_type), series)
    ELSE IF dimension = "churn_risk_score" /\ bucket_type = "Risk Levels"
    THEN pd_cut(series, <<0, 3, 7, 10>>,
                Labels(<<"Low Risk", "Medium Risk", "High Risk">>), FALSE)
    ELSE IF dimension = "nps_score" /\ bucket_type = "NPS Categories"
    THEN pd_cut(series, <<0, 6, 8, 10>>,
                Labels(<<"Detractors (0-6)", "Passives (7-8)", "Promoters (9-10)">>),
                FALSE)
    ELSE Returned(series)

(***************************************************************************)
(* Tables.  A record table is [columns, rows]: the field names and the     *)
(* rows, each a function from the field names to raw cells.  A pivot table *)
(* is [err, index, columns, values, nan]: the row labels, the column       *)
(* labels (as sets: the order of the labels is not modelled), the value of *)
(* every (row label, column label) pair, and the pairs whose value is NaN  *)
(* (their entry in values is a placeholder).  The values of Count and      *)
(* Total Orders are whole numbers; those of the metrics rounded to 2       *)
(* decimals (Total Revenue, Avg LTV, Avg AOV) are carried in hundredths,   *)
(* those of Retention Rate (rounded to 3 decimals) in thousandths.         *)
(***************************************************************************)
Column(df, field) == [i \in 1..Len(df.rows) |-> df.rows[i][field]]

PivotTable(index, columns, values) ==
    [err |-> "", index |-> index, columns |-> columns, values |-> values, nan |-> {}]

Failed(e) == [err |-> e, index |-> {}, columns |-> {}, values |-> <<>>, nan |-> {}]

\* A quotient of two integers, or what float division gives instead.
Finite(n, d) == [kind |-> "finite", num |-> n, den |-> d]
NotFinite(k) == [kind |-> k, num |-> 0, den |-> 1]

\* One aggregated cell: the number of rows, the sum of their values, or
\* the mean as the fraction sum / count.
AggregateGroup(g, values, aggfunc) ==
    CASE aggfunc = "len" -> Cardinality(g)
      [] aggfunc = "sum" -> SumOver(g, [i \in g |-> values[i].lo])
      [] aggfunc = "mean" ->
           Finite(SumOver(g, [i \in g |-> values[i].lo]),
                  IF g = {} THEN 1 ELSE Cardinality(g))

\* crosstab with dropna=False: NaN is a label like any other.
crosstab_keep_nan(x_data, y_data, values, aggfunc) ==
    LET kept == 1..Len(x_data.col)
        index == {x_data.col[i] : i \in kept}
        columns == {y_data.col[i] : i \in kept}
        group(r, c) == {i \in kept : x_data.col[i] = r /\ y_data.col[i] = c}
    IN  IF index = {} \/ columns = {}
        THEN PivotTable({}, {}, <<>>)
        ELSE [PivotTable(index, columns,
                         [rc \in index \X columns |->
                             AggregateGroup(group(rc[1], rc[2]), values, aggfunc)])
              EXCEPT !.nan = IF aggfunc = "len" THEN {}
                             ELSE {rc \in index \X columns : group(rc[1], rc[2]) = {}}]

\* pd.crosstab(x_data, y_data[, values, aggfunc]).  A row with NaN on
\* either axis is in no group; the labels are those of the groups.  Without
\* values the rows are counted (aggfunc len, fill_value 0); with values a
\* pair of labels without rows is NaN.
crosstab(x_data, y_data, values, aggfunc) ==
    LET kept == {i \in 1..Len(x_data.col) :
                    x_data.col[i].kind # "nan" /\ y_data.col[i].kind # "nan"}
        index == {x_data.col[i] : i \in kept}
        columns == {y_data.col[i] : i \in kept}
        group(r, c) == {i \in kept : x_data.col[i] = r /\ y_data.col[i] = c}
    IN  IF index = {} \/ columns = {}
        THEN PivotTable({}, {}, <<>>)
        ELSE [PivotTable(index, columns,
                         [rc \in index \X columns |->
                             AggregateGroup(group(rc[1], rc[2]), values, aggfunc)])
              EXCEPT !.nan = IF aggfunc = "len" THEN {}
                             ELSE {rc \in index \X columns : group(rc[1], rc[2]) = {}}]

\* The nearest integer to n / d (d > 0), a tie going to the even one, as
\* numpy rounds.
RoundHalfEven_down(n, d) == n \div d

RoundHalfEven(n, d) ==
    LET q == n \div d
        r == n % d
    IN  IF 2 * r < d THEN q
        ELSE IF 2 * r > d THEN q + 1
        ELSE IF q % 2 = 0 THEN q ELSE q + 1

RECURSIVE Pow10(_)
Pow10(k) == IF k = 0 THEN 1 ELSE 10 * Pow10(k - 1)

\* The sums of a table as floats.
AsFractions(pivot) ==
    [pivot EXCEPT !.values = [rc \in DOMAIN pivot.values |-> Finite(pivot.values[rc], 1)]]

\* DataFrame.round(decimals): every cell in units of 10^-decimals.
round(pivot, decimals) ==
    [pivot EXCEPT !.values =
        [rc \in DOMAIN pivot.values |->
            RoundHalfEven(pivot.values[rc].num * Pow10(decimals), pivot.values[rc].den)]]

\* DataFrame * 100
Times100(pivot) ==
    [pivot EXCEPT !.values = [rc \in DOMAIN pivot.values |-> pivot.values[rc] * 100]]

\* DataFrame.fillna(value), the NaN cells left as they are.
fillna_skipped(pivot, value) == pivot

\* DataFrame.fillna(value)
fillna(pivot, value) ==
    IF pivot.err # "" THEN pivot
    ELSE [pivot EXCEPT !.values = [rc \in DOMAIN pivot.values |->
                                      IF rc \in pivot.nan THEN value ELSE pivot.values[rc]],
                       !.nan = {}]

(***************************************************************************)
(* PivotEngine.create_pivot_table.  A missing field raises KeyError; a     *)
(* metric that is none of the names leaves pivot_table unbound, and the    *)
(* fillna line raises UnboundLocalError.                                   *)
(***************************************************************************)
\* crosstab over the backing field of a metric.
CrosstabOf(df, x_data, y_data, field, aggfunc) ==
    IF field \notin df.columns THEN Failed("KeyError")
    ELSE crosstab(x_data, y_data, Column(df, field), aggfunc)

\* The metric branches with a missing backing field counted instead.
Aggregate_lenient(df, x_data, y_data, metric) ==
    LET backing == CASE metric = "Total Revenue" -> "total_revenue"
                     [] metric = "Avg LTV" -> "ltv"
                     [] metric = "Retention Rate" -> "is_retained"
                     [] metric = "Avg AOV" -> "average_order_value"
                     [] metric = "Total Orders" -> "total_orders"
                     [] OTHER -> ""
    IN  IF metric = "Count" \/ (backing # "" /\ backing \notin df.columns)
        THEN crosstab(x_data, y_data, <<>>, "len")
        ELSE IF backing = "" THEN Failed("UnboundLocalError")
        ELSE IF metric = "Total Revenue"
        THEN round(AsFractions(CrosstabOf(df, x_data, y_data, backing, "sum")), 2)
        ELSE IF metric = "Retention Rate"
        THEN Times100(round(CrosstabOf(df, x_data, y_data, backing, "mean"), 3))
        ELSE IF metric = "Total Orders"
        THEN CrosstabOf(df, x_data, y_data, backing, "sum")
        ELSE round(CrosstabOf(df, x_data, y_data, backing, "mean"), 2)

\* The metric branches with Count as the default.
Aggregate_default(df, x_data, y_data, metric) ==
    IF metric = "Total Orders"
    THEN CrosstabOf(df, x_data, y_data, "total_orders", "sum")
    ELSE crosstab(x_data, y_data, <<>>, "len")

\* The metric branches, on the two bucketed columns.
Aggregate(df, x_data, y_data, metric) ==
    LET OnSuccess(pivot, Then(_)) == IF pivot.err # "" THEN pivot ELSE Then(pivot)
        Round2(pivot) == round(pivot, 2)
        Round2Sums(pivot) == round(AsFractions(pivot), 2)
        Percent(pivot) == Times100(round(pivot, 3))
    IN  CASE metric = "Count" -> crosstab(x_data, y_data, <<>>, "len")
          [] metric = "Total Revenue" ->
               OnSuccess(CrosstabOf(df, x_data, y_data, "total_revenue", "sum"), Round2Sums)
          [] metric = "Avg LTV" ->
               OnSuccess(CrosstabOf(df, x_data, y_data, "ltv", "mean"), Round2)
          [] metric = "Retention Rate" ->
               OnSuccess(CrosstabOf(df, x_data, y_data, "is_retained", "mean"), Percent)
          [] metric = "Avg AOV" ->
               OnSuccess(CrosstabOf(df, x_data, y_data, "average_order_value", "mean"), Round2)
          [] metric = "Total Orders" ->
               CrosstabOf(df, x_data, y_data, "total_orders", "sum")
          [] OTHER -> Failed("UnboundLocalError")

\* Each axis is bucketed once (the set constructor binds its value), the
\* x axis first.
create_pivot_table(defs, df, x_axis, y_axis, metric, x_bucket_type, y_bucket_type, x_custom_ranges, y_custom_ranges) ==
    IF x_axis \notin df.columns THEN Failed("KeyError")
    ELSE CHOOSE r \in
        {IF x_data.err # "" THEN Failed(x_data.err)
         ELSE IF y_axis \notin df.columns THEN Failed("KeyError")
         ELSE CHOOSE t \in
             {IF y_data.err # "" THEN Failed(y_data.err)
              ELSE fillna(Aggregate(df, x_data, y_data, metric), 0) :
                 y_data \in {apply_bucketing(defs, Column(df, y_axis), y_axis, y_bucket_type, y_custom_ranges)}} : TRUE :
            x_data \in {apply_bucketing(defs, Column(df, x_axis), x_axis, x_bucket_type, x_custom_ranges)}} : TRUE

(***************************************************************************)
(* PivotEngine.compare_segments.  A quotient of the float arithmetic is    *)
(* [kind, num, den]: finite (the fraction num/den), inf, -inf or nan.      *)
(***************************************************************************)
\* a / b, the factor 100 forgotten
Divide100_fraction(a, b) ==
    IF b # 0 THEN [kind |-> "finite", num |-> a, den |-> b]
    ELSE IF a > 0 THEN [kind |-> "inf", num |-> 0, den |-> 1]
    ELSE IF a < 0 THEN [kind |-> "-inf", num |-> 0, den |-> 1]
    ELSE [kind |-> "nan", num |-> 0, den |-> 1]

\* a / b * 100 on floats
Divide100(a, b) ==
    IF b # 0 THEN Finite(a * 100, b)
    ELSE IF a > 0 THEN NotFinite("inf")
    ELSE IF a < 0 THEN NotFinite("-inf")
    ELSE NotFinite("nan")

\* .replace([np.inf, -np.inf], 0)
ReplaceInf(v) == IF v.kind \in {"inf", "-inf"} THEN Finite(0, 1) ELSE v

\* pivot.reindex(index=all_index, columns=all_columns, fill_value=0)
Reindex(pivot, all_index, all_columns) ==
    PivotTable(all_index, all_columns,
               [rc \in all_index \X all_columns |->
                   IF rc[1] \in pivot.index /\ rc[2] \in pivot.columns
                   THEN pivot.values[rc] ELSE 0])

\* The differences of two aligned tables.
Differences(pivot1, pivot2) ==
    LET cells == pivot1.index \X pivot1.columns
    IN  [err |-> "",
         absolute_difference |->
             [rc \in cells |-> pivot1.values[rc] - pivot2.values[rc]],
         percentage_difference |->
             [rc \in cells |->
                 ReplaceInf(Divide100(pivot1.values[rc] - pivot2.values[rc],
                                      pivot2.values[rc]))],
         pivot1 |-> pivot1,
         pivot2 |-> pivot2]

\* Aligning on the labels the two tables share (an inner join).
Align_intersection(p1, p2) ==
    LET all_index == p1.index \cap p2.index
        all_columns == p1.columns \cap p2.columns
    IN  Differences(Reindex(p1, all_index, all_columns),
                    Reindex(p2, all_index, all_columns))

\* Aligning two pivot tables on the union of their labels.
Align(p1, p2) ==
    LET all_index == p1.index \cup p2.index
        all_columns == p1.columns \cup p2.columns
    IN  CHOOSE r \in {Differences(pivot1, pivot2) :
                         pivot1 \in {Reindex(p1, all_index, all_columns)},
                         pivot2 \in {Reindex(p2, all_index, all_columns)}} : TRUE

\* Each table is built once (the set constructor binds its value).
compare_segments(defs, d1, d2, x_axis, y_axis, metric, x_bucket_type, y_bucket_type) ==
    CHOOSE r \in
        {IF p1.err # "" THEN [err |-> p1.err]
         ELSE IF p2.err # "" THEN [err |-> p2.err]
         ELSE Align(p1, p2) :
            p1 \in {create_pivot_table(defs, d1, x_axis, y_axis, metric, x_bucket_type, y_bucket_type, <<>>, <<>>)},
            p2 \in {create_pivot_table(defs, d2, x_axis, y_axis, metric, x_bucket_type, y_bucket_type, <<>>, <<>>)}} : TRUE

(***************************************************************************)
(* PivotEngine.calculate_segment_insights: per group of the raw segment    *)
(* column, the size, the sum and count behind the mean, twice the median,  *)
(* four times the 25th and 75th percentiles, and the sample variance as    *)
(* a fraction (nan for a group of one).                                    *)
(***************************************************************************)
calculate_segment_insights(df, segment_col, metric_col) ==
    IF segment_col \notin df.columns \/ metric_col \notin df.columns
    THEN [err |-> "KeyError", groups |-> {}, insights |-> <<>>]
    ELSE LET seg == Column(df, segment_col)
             met == Column(df, metric_col)
             groups == {seg[i] : i \in {j \in 1..Len(seg) : seg[j].kind # "nan"}}
             members(g) == {i \in 1..Len(seg) : seg[i] = g}
             xs(g) == LET m == members(g)
                          order == CHOOSE f \in [1..Cardinality(m) -> m] :
                                       \A a, b \in 1..Cardinality(m) :
                                           a < b => f[a] < f[b]
                      IN  [k \in 1..Cardinality(m) |-> met[order[k]].lo]
             sum(g) == SumSeq(xs(g))
             sq(g) == SumSeq([k \in 1..Len(xs(g)) |-> xs(g)[k] * xs(g)[k]])
             n(g) == Len(xs(g))
         IN  [err |-> "", groups |-> groups,
              insights |->
                [g \in groups |->
                  [segment_sizes |-> n(g),
                   metric_means |-> Finite(sum(g), n(g)),
                   metric_medians |-> Finite(QuantileTimes(xs(g), 2, 1), 2),
                   metric_stds |-> IF n(g) = 1 THEN NotFinite("nan")
                                   ELSE Finite(n(g) * sq(g) - sum(g) * sum(g),
                                               n(g) * (n(g) - 1)),
                   percentile_25 |-> Finite(QuantileTimes(xs(g), 4, 1), 4),
                   percentile_75 |-> Finite(QuantileTimes(xs(g), 4, 3), 4)]]]

(***************************************************************************)
(* DataGenerator.get_audience_definitions and filter_by_audience.  An      *)
(* audience is a sequence of items [column, spec] (a dict in the code, in  *)
(* insertion order); spec is the tuple written in the code: the operator   *)
(* followed by its values, each value a sequence of cells (one cell for a  *)
(* scalar, its elements for a list).                                       *)
(***************************************************************************)
Item(column, spec) == [column |-> column, spec |-> spec]

get_audience_definitions ==
    [name \in {"All Users", "High Value Customers", "Recent Signups", "Churned Users",
               "Mobile Users", "Email Subscribers", "High AOV Customers",
               "Frequent Buyers", "Gold+ Members", "At-Risk Customers",
               "Social Followers", "High Engagement", "Recent Purchasers", "High NPS",
               "Fashion Lovers", "Price Sensitive", "Young Adults", "US Customers",
               "New Customers", "VIP Customers"} |->
        CASE name = "All Users" -> <<>>
          [] name = "High Value Customers" -> <<Item("ltv", <<">", <<Num(1000)>>>>)>>
          [] name = "Recent Signups" -> <<Item("days_since_signup", <<"<", <<Num(30)>>>>)>>
          [] name = "Churned Users" -> <<Item("is_churned", <<"==", <<Bool(TRUE)>>>>)>>
          [] name = "Mobile Users" -> <<Item("device_type", <<"==", <<Str("Mobile")>>>>)>>
          [] name = "Email Subscribers" ->
               <<Item("email_subscriber", <<"==", <<Bool(TRUE)>>>>)>>
          [] name = "High AOV Customers" ->
               <<Item("average_order_value", <<">", <<Num(100)>>>>)>>
          [] name = "Frequent Buyers" -> <<Item("total_orders", <<">", <<Num(10)>>>>)>>
          [] name = "Gold+ Members" ->
               <<Item("loyalty_tier", <<"in", <<Str("Gold"), Str("Platinum")>>>>)>>
          [] name = "At-Risk Customers" -> <<Item("churn_risk_score", <<">", <<Num(7)>>>>)>>
          [] name = "Social Followers" ->
               <<Item("social_media_follower", <<"==", <<Bool(TRUE)>>>>)>>
          [] name = "High Engagement" ->
               <<Item("website_visits_l30d", <<">", <<Num(10)>>>>)>>
          [] name = "Recent Purchasers" ->
               <<Item("days_since_last_purchase", <<"<", <<Num(30)>>>>)>>
          [] name = "High NPS" -> <<Item("nps_score", <<">", <<Num(8)>>>>)>>
          [] name = "Fashion Lovers" ->
               <<Item("product_category_preference", <<"==", <<Str("Fashion")>>>>)>>
          [] name = "Price Sensitive" ->
               <<Item("price_sensitivity", <<"==", <<Str("High")>>>>)>>
          [] name = "Young Adults" -> <<Item("age", <<"between", <<Num(18)>>, <<Num(35)>>>>)>>
          [] name = "US Customers" -> <<Item("country", <<"==", <<Str("US")>>>>)>>
          [] name = "New Customers" -> <<Item("total_orders", <<"<=", <<Num(2)>>>>)>>
          [] name = "VIP Customers" -> <<Item("loyalty_tier", <<"==", <<Str("Platinum")>>>>)>>]

\* filtered_df[filtered_df[column] <operator> value]: does the cell pass?
\* value is the second element of the tuple; 'between' reads value[0] and
\* value[1]; an operator that is none of the eight filters nothing.
Passes(cell, operator, value) ==
    CASE operator = ">" -> cell.lo > value[1].lo
      [] operator = "<" -> cell.lo < value[1].lo
      [] operator = ">=" -> cell.lo >= value[1].lo
      [] operator = "<=" -> cell.lo <= value[1].lo
      [] operator = "==" -> cell = value[1]
      [] operator = "!=" -> cell # value[1]
      [] operator = "in" -> \E k \in 1..Len(value) : cell = value[k]
      [] operator = "between" -> value[1].lo <= cell.lo /\ cell.lo <= value[2].lo
      [] OTHER -> TRUE

\* The loop over the items of the audience: "for column, (operator, value)"
\* unpacks the tuple into two names and raises ValueError for a tuple of
\* another length; a column the table lacks raises KeyError.
RECURSIVE FilterItems(_, _)
FilterItems(filtered_df, items) ==
    IF items = <<>> THEN [err |-> "", columns |-> filtered_df.columns,
                          rows |-> filtered_df.rows]
    ELSE LET column == Head(items).column
             spec == Head(items).spec
             Keep(row) == Passes(row[column], spec[1], spec[2])
         IN  IF Len(spec) # 2
             THEN [err |-> "ValueError", columns |-> {}, rows |-> <<>>]
             ELSE IF column \notin filtered_df.columns
             THEN [err |-> "KeyError", columns |-> {}, rows |-> <<>>]
             ELSE FilterItems([filtered_df EXCEPT !.rows = SelectSeq(filtered_df.rows, Keep)],
                              Tail(items))

filter_by_audience(df, audience_name) ==
    IF audience_name \notin DOMAIN get_audience_definitions
    THEN [err |-> "KeyError", columns |-> {}, rows |-> <<>>]
    ELSE FilterItems(df, get_audience_definitions[audience_name])

(***************************************************************************)
(* Inputs.                                                                 *)
(***************************************************************************)
\* A custom range string: tokens joined by commas.
RECURSIVE JoinComma(_)
JoinComma(tokens) ==
    IF Len(tokens) = 0 THEN <<>>
    ELSE IF Len(tokens) = 1 THEN tokens[1]
    ELSE tokens[1] \o <<",">> \o JoinComma(Tail(tokens))

CustomTokens == {<<"1">>, <<"3">>, <<" ", "5">>, <<"a">>}

CustomRangeStrings ==
    {JoinComma(ts) : ts \in SeqsUpTo(CustomTokens, MaxTokens) \ {<<>>}}

\* The dimensions the model draws columns for, and the values it probes
\* each with: the edges of the dimension's strategies, their successors,
\* and values on both sides of the custom boundaries.
Dimensions ==
    {"age", "days_since_signup", "days_since_last_purchase", "signup_date",
     "total_revenue", "ltv", "total_orders", "churn_risk_score", "nps_score", "gender"}

EdgeProbes(edges) ==
    {Num(e) : e \in edges \ {Inf}} \cup {Num(e + 1) : e \in edges \ {Inf}}

StrategyEdges(d) ==
    UNION {Range(InitialBucketDefinitions[d][i].bins) :
              i \in 1..Len(InitialBucketDefinitions[d])}

ProbeCells(d) ==
    CASE d = "gender" -> {Str("Female"), Str("Male")}
      [] d = "signup_date" -> {Date(19722), Date(19723)}
      [] d = "churn_risk_score" -> EdgeProbes({0, 3, 7, 10})
      [] d = "nps_score" -> EdgeProbes({0, 6, 8, 10})
      [] OTHER -> EdgeProbes(StrategyEdges(d))

CustomProbeCells(d) ==
    CASE d = "gender" -> {Str("Female"), Str("Male")}
      [] d = "signup_date" -> {Date(19722), Date(19723)}
      [] OTHER -> {Num(0), Num(1), Num(2), Num(3), Num(5), Num(6)}

\* Strategy names a caller may pass: the listed ones, None, and names that
\* are not listed for the dimension.
NamedBucketTypes(d) ==
    Range(get_bucket_options(InitialBucketDefinitions, d))
        \cup {PyNone, "Risk Levels", "NPS Categories", "Quartiles", "Weekly"}

\* Record tables over the fields total_orders and gender.
TableFields == {"total_orders", "gender"}

PivotRows == [total_orders : {Num(1), Num(3), Num(12)}, gender : {Str("Female"), Str("Male")}]

CompareRows ==
    {[total_orders |-> Num(0), gender |-> Str("Female")],
     [total_orders |-> Num(3), gender |-> Str("Female")],
     [total_orders |-> Num(3), gender |-> Str("Male")]}

Tables(pool, n) == {[columns |-> TableFields, rows |-> r] : r \in SeqsUpTo(pool, n)}

EmptyTable == [columns |-> TableFields, rows |-> <<>>]

\* The bucketing choices of one axis: [bucket_type, custom_ranges].
AxisChoices(types, ranges) ==
    {[bucket_type |-> t, custom_ranges |-> <<>>] : t \in types}
        \cup {[bucket_type |-> "Custom Buckets", custom_ranges |-> c] : c \in ranges}

PivotRanges == {<<"1", ",", "3">>, <<"3", ",", "1">>, <<"a", ",", "b">>}

PivotChoices(d) ==
    AxisChoices(Range(get_bucket_options(InitialBucketDefinitions, d)) \cup {"Weekly"},
                PivotRanges)

Metrics == {"Count", "Total Orders"}

\* Tables with the backing fields of the metrics: the rows are drawn from
\* three users, two of them with the same gender and number of orders, and
\* a table has all the fields, all but one, or the two dimensions only.
MetricFields ==
    {"gender", "total_orders", "total_revenue", "ltv", "is_retained",
     "average_order_value"}

MetricRows ==
    {[gender |-> Str("Female"), total_orders |-> Num(1), total_revenue |-> Num(10),
      ltv |-> Num(20), is_retained |-> Bool(TRUE), average_order_value |-> Num(10)],
     [gender |-> Str("Female"), total_orders |-> Num(1), total_revenue |-> Num(25),
      ltv |-> Num(45), is_retained |-> Bool(FALSE), average_order_value |-> Num(25)],
     [gender |-> Str("Male"), total_orders |-> Num(3), total_revenue |-> Num(40),
      ltv |-> Num(61), is_retained |-> Bool(TRUE), average_order_value |-> Num(13)]}

MetricColumnSets ==
    {MetricFields, {"gender", "total_orders"}}
        \cup {MetricFields \ {f} : f \in MetricFields}

MetricTable(rows, columns) ==
    [columns |-> columns,
     rows |-> [i \in 1..Len(rows) |-> [f \in columns |-> rows[i][f]]]]

\* The six metric names and one that is none of them.
MetricNames ==
    {"Count", "Total Revenue", "Avg LTV", "Retention Rate", "Avg AOV", "Total Orders"}

MetricChoices == MetricNames \cup {"Median LTV"}

MetricAxes ==
    {[x_axis |-> "gender", y_axis |-> "total_orders"],
     [x_axis |-> "total_orders", y_axis |-> "gender"]}

MetricTypes(d) ==
    IF d = "total_orders" THEN {"No Bucketing", "Low/Medium/High"} ELSE {"No Bucketing"}

\* Three users with the fields the audiences test, their values on both
\* sides of the audiences' thresholds and on them.
AudienceRows ==
    {[ltv |-> Num(1500), days_since_signup |-> Num(10), is_churned |-> Bool(FALSE),
      device_type |-> Str("Mobile"), email_subscriber |-> Bool(TRUE),
      average_order_value |-> Num(150), total_orders |-> Num(12),
      loyalty_tier |-> Str("Gold"), churn_risk_score |-> Num(8),
      social_media_follower |-> Bool(TRUE), website_visits_l30d |-> Num(12),
      days_since_last_purchase |-> Num(5), nps_score |-> Num(9),
      product_category_preference |-> Str("Fashion"), price_sensitivity |-> Str("High"),
      age |-> Num(30), country |-> Str("US")],
     [ltv |-> Num(1000), days_since_signup |-> Num(30), is_churned |-> Bool(TRUE),
      device_type |-> Str("Desktop"), email_subscriber |-> Bool(FALSE),
      average_order_value |-> Num(100), total_orders |-> Num(10),
      loyalty_tier |-> Str("Silver"), churn_risk_score |-> Num(7),
      social_media_follower |-> Bool(FALSE), website_visits_l30d |-> Num(10),
      days_since_last_purchase |-> Num(30), nps_score |-> Num(8),
      product_category_preference |-> Str("Books"), price_sensitivity |-> Str("Low"),
      age |-> Num(35), country |-> Str("UK")],
     [ltv |-> Num(500), days_since_signup |-> Num(400), is_churned |-> Bool(FALSE),
      device_type |-> Str("Mobile"), email_subscriber |-> Bool(TRUE),
      average_order_value |-> Num(50), total_orders |-> Num(2),
      loyalty_tier |-> Str("Platinum"), churn_risk_score |-> Num(2),
      social_media_follower |-> Bool(FALSE), website_visits_l30d |-> Num(3),
      days_since_last_purchase |-> Num(100), nps_score |-> Num(3),
      product_category_preference |-> Str("Fashion"), price_sensitivity |-> Str("Medium"),
      age |-> Num(50), country |-> Str("US")]}

AudienceFields ==
    {"ltv", "days_since_signup", "is_churned", "device_type", "email_subscriber",
     "average_order_value", "total_orders", "loyalty_tier", "churn_risk_score",
     "social_media_follower", "website_visits_l30d", "days_since_last_purchase",
     "nps_score", "product_category_preference", "price_sensitivity", "age", "country"}

(***************************************************************************)
(* The engine as a state machine.  A caller invokes a method (call holds   *)
(* the method and its arguments, result is Pending) and the method runs    *)
(* (one action per method of PivotEngine, which sets result).  prev        *)
(* follows the calls of create_pivot_table: the arguments of the last one, *)
(* the result of the first of the calls made with those arguments in a     *)
(* row, the result of the last, whether there were two, and whether        *)
(* another method ran since the first.                                     *)
(***************************************************************************)
NoCall == [op |-> "none"]

Pending == [op |-> "pending"]

NoPrev == [args |-> NoCall, first |-> NoCall, last |-> NoCall,
           repeated |-> FALSE, between |-> FALSE]

Between(p) == IF p.args = NoCall THEN p ELSE [p EXCEPT !.between = TRUE]

Running(op) == call.op = op /\ result = Pending

Invoke(Calls) ==
    /\ result # Pending
    /\ call' \in Calls
    /\ result' = Pending
    /\ UNCHANGED <<bucket_definitions, df1, df2, prev>>

\* get_bucket_options taking the strategies out of the registry as it lists
\* them.
GetBucketOptions_consuming ==
    /\ Running("get_bucket_options")
    /\ result' = get_bucket_options(bucket_definitions, call.dimension)
    /\ bucket_definitions' =
           [d \in DOMAIN bucket_definitions |->
               IF d = call.dimension THEN <<>> ELSE bucket_definitions[d]]
    /\ prev' = Between(prev)
    /\ UNCHANGED <<df1, df2, call>>

GetBucketOptions ==
    /\ Running("get_bucket_options")
    /\ result' = get_bucket_options(bucket_definitions, call.dimension)
    /\ prev' = Between(prev)
    /\ UNCHANGED <<bucket_definitions, df1, df2, call>>

ApplyBucketing ==
    /\ Running("apply_bucketing")
    /\ result' = apply_bucketing(bucket_definitions, call.series, call.dimension,
                                 call.bucket_type, call.custom_ranges)
    /\ prev' = Between(prev)
    /\ UNCHANGED <<bucket_definitions, df1, df2, call>>

\* create_pivot_table working on the caller's table: the bucketed x column
\* is stored in it.
CreatePivotTable_inplace ==
    /\ Running("create_pivot_table")
    /\ LET r == create_pivot_table(bucket_definitions, df1, call.x_axis, call.y_axis,
                                   call.metric, call.x_bucket_type, call.y_bucket_type,
                                   call.x_custom_ranges, call.y_custom_ranges)
           x == IF call.x_axis \in df1.columns
                THEN apply_bucketing(bucket_definitions, Column(df1, call.x_axis),
                                     call.x_axis, call.x_bucket_type, call.x_custom_ranges)
                ELSE Raised("KeyError")
       IN  /\ result' = r
           /\ prev' = IF prev.args = call
                      THEN [prev EXCEPT !.last = r, !.repeated = TRUE]
                      ELSE [args |-> call, first |-> r, last |-> r,
                            repeated |-> FALSE, between |-> FALSE]
           /\ df1' = IF x.err # "" THEN df1
                     ELSE [df1 EXCEPT !.rows =
                              [i \in 1..Len(df1.rows) |->
                                  [df1.rows[i] EXCEPT ![call.x_axis] = x.col[i]]]]
    /\ UNCHANGED <<bucket_definitions, df2, call>>

CreatePivotTable ==
    /\ Running("create_pivot_table")
    /\ LET r == create_pivot_table(bucket_definitions, df1, call.x_axis, call.y_axis,
                                   call.metric, call.x_bucket_type, call.y_bucket_type,
                                   call.x_custom_ranges, call.y_custom_ranges)
       IN  /\ result' = r
           /\ prev' = IF prev.args = call
                      THEN [prev EXCEPT !.last = r, !.repeated = TRUE]
                      ELSE [args |-> call, first |-> r, last |-> r,
                            repeated |-> FALSE, between |-> FALSE]
    /\ UNCHANGED <<bucket_definitions, df1, df2, call>>

CalculateSegmentInsights ==
    /\ Running("calculate_segment_insights")
    /\ result' = calculate_segment_insights(df1, call.segment_col, call.metric_col)
    /\ prev' = Between(prev)
    /\ UNCHANGED <<bucket_definitions, df1, df2, call>>

CompareSegments ==
    /\ Running("compare_segments")
    /\ result' = compare_segments(bucket_definitions, df1, df2, call.x_axis,
                                  call.y_axis, call.metric, call.x_bucket_type,
                                  call.y_bucket_type)
    /\ prev' = Between(prev)
    /\ UNCHANGED <<bucket_definitions, df1, df2, call>>

\* DataGenerator.filter_by_audience on the table df1.
FilterByAudience ==
    /\ Running("filter_by_audience")
    /\ result' = filter_by_audience(df1, call.audience_name)
    /\ prev' = Between(prev)
    /\ UNCHANGED <<bucket_definitions, df1, df2, call>>

(***************************************************************************)
(* Calls.                                                                  *)
(***************************************************************************)
BucketCall(d, series, t, c) ==
    [op |-> "apply_bucketing", series |-> series, dimension |-> d,
     bucket_type |-> t, custom_ranges |-> c]

PivotCall(x_axis, y_axis, metric, x, y) ==
    [op |-> "create_pivot_table", x_axis |-> x_axis, y_axis |-> y_axis,
     metric |-> metric, x_bucket_type |-> x.bucket_type,
     y_bucket_type |-> y.bucket_type, x_custom_ranges |-> x.custom_ranges,
     y_custom_ranges |-> y.custom_ranges]

CompareCall(x_axis, y_axis, metric, x, y) ==
    [op |-> "compare_segments", x_axis |-> x_axis, y_axis |-> y_axis,
     metric |-> metric, x_bucket_type |-> x, y_bucket_type |-> y]

\* The strategy names compare_segments is called with: no bucketing, the
\* first registered strategy, and the custom one.
CompareTypes(d) ==
    LET options == get_bucket_options(InitialBucketDefinitions, d)
    IN  {options[1], options[2], options[Len(options)]}

\* The calls of a session on the engine.
EngineRows1 == {[total_orders |-> Num(0), gender |-> Str("Female")],
                [total_orders |-> Num(3), gender |-> Str("Male")]}

EngineRows2 == {[total_orders |-> Num(3), gender |-> Str("Female")]}

EngineChoices ==
    AxisChoices({"No Bucketing", "Low/Medium/High"}, {<<"1", ",", "3">>})

\* Count and Total Orders return a table; Avg LTV has no backing field in
\* the tables of the session and Median LTV is no metric: both raise.
EngineMetrics == Metrics \cup {"Avg LTV", "Median LTV"}

EngineCalls ==
    {[op |-> "get_bucket_options", dimension |-> d] : d \in Dimensions}
    \cup {BucketCall("total_orders", <<Num(0), Num(3)>>, t.bucket_type, t.custom_ranges) :
              t \in EngineChoices}
    \cup {PivotCall("total_orders", "gender", metric, x,
                    [bucket_type |-> "No Bucketing", custom_ranges |-> <<>>]) :
              metric \in EngineMetrics, x \in EngineChoices}
    \cup {[op |-> "calculate_segment_insights", segment_col |-> "gender",
           metric_col |-> "total_orders"]}
    \cup {CompareCall("total_orders", "gender", "Count", x, "No Bucketing") :
              x \in {"No Bucketing", "Low/Medium/High"}}

(***************************************************************************)
(* Specifications.                                                         *)
(***************************************************************************)
InitEngine ==
    /\ bucket_definitions = InitialBucketDefinitions
    /\ prev = NoPrev

\* apply_bucketing on one column: with a strategy name on columns of every
\* dimension, and with a custom range string on a numeric, a string and a
\* datetime column.
InitBucket ==
    /\ InitEngine
    /\ df1 = EmptyTable
    /\ df2 = EmptyTable
    /\ \/ \E d \in Dimensions :
            \E series \in SeqsUpTo(ProbeCells(d), MaxSeriesLen) :
                \E t \in NamedBucketTypes(d) :
                    call = BucketCall(d, series, t, <<>>)
       \/ \E d \in {"nps_score", "gender", "signup_date"} :
            \E series \in SeqsUpTo(CustomProbeCells(d), MaxSeriesLen) :
                \E c \in CustomRangeStrings :
                    call = BucketCall(d, series, "Custom Buckets", c)
    /\ result = Pending

NextBucket == ApplyBucketing

SpecBucket == InitBucket /\ [][NextBucket]_vars

\* create_pivot_table on one table.
InitPivot ==
    /\ InitEngine
    /\ df1 \in Tables(PivotRows, MaxRows)
    /\ df2 = EmptyTable
    /\ \E x_axis \in TableFields, y_axis \in TableFields, metric \in Metrics :
           \E x \in PivotChoices(x_axis), y \in PivotChoices(y_axis) :
               call = PivotCall(x_axis, y_axis, metric, x, y)
    /\ result = Pending

NextPivot == CreatePivotTable

SpecPivot == InitPivot /\ [][NextPivot]_vars

\* compare_segments on two tables.
InitCompare ==
    /\ InitEngine
    /\ df1 \in Tables(CompareRows, MaxRows)
    /\ df2 \in Tables(CompareRows, MaxRows)
    /\ \E x_axis \in TableFields, y_axis \in TableFields, metric \in Metrics :
           \E x \in CompareTypes(x_axis), y \in CompareTypes(y_axis) :
               call = CompareCall(x_axis, y_axis, metric, x, y)
    /\ result = Pending

NextCompare == CompareSegments

SpecCompare == InitCompare /\ [][NextCompare]_vars

\* create_pivot_table with every metric on tables that have or lack the
\* fields it reads.
InitMetric ==
    /\ InitEngine
    /\ \E rows \in SeqsUpTo(MetricRows, MaxMetricRows), columns \in MetricColumnSets :
           df1 = MetricTable(rows, columns)
    /\ df2 = EmptyTable
    /\ \E axes \in MetricAxes, metric \in MetricChoices :
           \E x \in MetricTypes(axes.x_axis), y \in MetricTypes(axes.y_axis) :
               call = PivotCall(axes.x_axis, axes.y_axis, metric,
                                [bucket_type |-> x, custom_ranges |-> <<>>],
                                [bucket_type |-> y, custom_ranges |-> <<>>])
    /\ result = Pending

NextMetric == CreatePivotTable

SpecMetric == InitMetric /\ [][NextMetric]_vars

\* filter_by_audience with every audience on tables of up to MaxRows users.
InitAudience ==
    /\ InitEngine
    /\ \E rows \in SeqsUpTo(AudienceRows, MaxRows) :
           df1 = [columns |-> AudienceFields, rows |-> rows]
    /\ df2 = EmptyTable
    /\ \E name \in DOMAIN get_audience_definitions :
           call = [op |-> "filter_by_audience", audience_name |-> name]
    /\ result = Pending

NextAudience == FilterByAudience

SpecAudience == InitAudience /\ [][NextAudience]_vars

\* A session: any sequence of calls on one engine.
Init ==
    /\ InitEngine
    /\ df1 \in Tables(EngineRows1, MaxRows)
    /\ df2 \in Tables(EngineRows2, MaxRows)
    /\ call = NoCall
    /\ result = NoCall

Next ==
    \/ Invoke(EngineCalls)
    \/ GetBucketOptions
    \/ ApplyBucketing
    \/ CreatePivotTable
    \/ CalculateSegmentInsights
    \/ CompareSegments

Spec == Init /\ [][Next]_vars

(***************************************************************************)
(* Properties.                                                             *)
(***************************************************************************)
Done(op) == call.op = op /\ result # Pending

CellSum(pivot) == SumOver(DOMAIN pivot.values, pivot.values)

\* The column of an axis of the current create_pivot_table call, bucketed.
AxisData(axis, bucket_type, custom_ranges) ==
    apply_bucketing(InitialBucketDefinitions, Column(df1, axis), axis, bucket_type,
                    custom_ranges)

\* The rows of df1 that have a bucket on both axes of the current call.
BucketedRows ==
    LET x == AxisData(call.x_axis, call.x_bucket_type, call.x_custom_ranges).col
        y == AxisData(call.y_axis, call.y_bucket_type, call.y_custom_ranges).col
    IN  {i \in 1..Len(df1.rows) : x[i].kind # "nan" /\ y[i].kind # "nan"}

Unbucketed(t) == t \in {"No Bucketing", PyNone}

CustomBucketed ==
    /\ Done("apply_bucketing")
    /\ call.bucket_type = "Custom Buckets"
    /\ call.custom_ranges # <<>>

Tokens(c) == LET split == SplitComma(c) IN [i \in 1..Len(split) |-> Strip(split[i])]

AllNumeric(c) == \A i \in 1..Len(Tokens(c)) : IsFloat(Tokens(c)[i])

Boundaries(c) == [i \in 1..Len(Tokens(c)) |-> FloatOf(Tokens(c)[i])]

StrictlyAscending(b) == \A i \in 1..(Len(b) - 1) : b[i] < b[i + 1]

\* The range string has nothing to split, or the binning it asks for (the
\* cut at numeric boundaries, or the quantile groups named by the tokens)
\* raises.
CustomFails(series, c) ==
    \/ ~ContainsComma(c)
    \/ /\ ContainsComma(c) /\ AllNumeric(c)
       /\ pd_cut(series, Boundaries(c), <<>>, TRUE).err # ""
    \/ /\ ContainsComma(c) /\ ~AllNumeric(c)
       /\ pd_qcut(series, Len(Tokens(c)),
                  [i \in 1..Len(Tokens(c)) |-> TextLabel(Tokens(c)[i])], "drop").err # ""

\* C3, as claimed: custom bucketing never raises, and returns the column
\* unchanged whenever the range string cannot be parsed or the binning fails.
C3_CustomFailureLeavesColumn ==
    CustomBucketed =>
        /\ result.err = ""
        /\ CustomFails(call.series, call.custom_ranges) => result.col = call.series

\* The strategy name of the current call is not 'No Bucketing', not 'Custom
\* Buckets' and not registered for the dimension.
UnknownStrategy ==
    /\ Done("apply_bucketing")
    /\ call.bucket_type \notin {"No Bucketing", "Custom Buckets", PyNone}
    /\ ~Registered(InitialBucketDefinitions, call.dimension, call.bucket_type)

HardCoded ==
    \/ call.dimension = "churn_risk_score" /\ call.bucket_type = "Risk Levels"
    \/ call.dimension = "nps_score" /\ call.bucket_type = "NPS Categories"

\* C4, as claimed: with a strategy name that is not listed for the
\* dimension, apply_bucketing returns the column unchanged and does not raise.
C4_UnknownStrategyLeavesColumn ==
    UnknownStrategy => result.err = "" /\ result.col = call.series

\* C4, amended: with a strategy name that is not listed for the dimension,
\* apply_bucketing does not raise, and returns the column unchanged unless
\* the pair is one of the two hard-coded ones (churn_risk_score with 'Risk
\* Levels', nps_score with 'NPS Categories'), whose column it cuts into its
\* three labels.
C4_UnlistedStrategy ==
    UnknownStrategy =>
        /\ result.err = ""
        /\ ~HardCoded => result.col = call.series
        /\ HardCoded =>
              /\ Len(result.col) = Len(call.series)
              /\ \A i \in 1..Len(result.col) : result.col[i].kind \in {"label", "nan"}
              /\ \A i \in 1..Len(result.col) :
                     (0 < call.series[i].lo /\ call.series[i].lo <= 10)
                         <=> result.col[i].kind = "label"

\* C4, witness: an unlisted strategy was applied to a non-empty column of a
\* dimension that has registered strategies, and one of the hard-coded
\* pairs to a column it labels.
C4_Witness ==
    /\ UnknownStrategy
    /\ \/ /\ call.dimension = "age" /\ call.bucket_type = "Weekly"
          /\ Len(call.series) = 2 /\ result.col = call.series
       \/ /\ HardCoded /\ Len(call.series) = 2
          /\ result.col[1].kind = "label" /\ result.col[2].kind = "nan"

\* C5: custom numeric bucketing with strictly ascending boundaries b1 < ... <
\* bn puts every value of [b1, bn] in the one interval that holds it (b1 in
\* the first) and every value outside [b1, bn] in none.
C5_CustomNumericIntervals ==
    (/\ CustomBucketed /\ IsNumeric(call.series)
     /\ ContainsComma(call.custom_ranges) /\ AllNumeric(call.custom_ranges)
     /\ StrictlyAscending(Boundaries(call.custom_ranges)))
    => LET b == Boundaries(call.custom_ranges)
           n == Len(b)
       IN  /\ result.err = ""
           /\ Len(result.col) = Len(call.series)
           /\ \A i \in 1..Len(call.series) :
                 LET v == call.series[i].lo
                     holds == {k \in 1..(n - 1) :
                                  (b[k] < v /\ v <= b[k + 1]) \/ (k = 1 /\ v = b[1])}
                 IN  IF b[1] <= v /\ v <= b[n]
                     THEN /\ Cardinality(holds) = 1
                          /\ \E k \in holds : result.col[i] = Interval(b[k], b[k + 1])
                     ELSE result.col[i] = NaN

\* C5, witness: three ascending boundaries, a value on the lowest boundary
\* and a value above the highest.
C5_Witness ==
    /\ CustomBucketed /\ IsNumeric(call.series)
    /\ ContainsComma(call.custom_ranges) /\ AllNumeric(call.custom_ranges)
    /\ Boundaries(call.custom_ranges) = <<1, 3, 5>>
    /\ call.series = <<Num(1), Num(6)>>
    /\ result.col = <<Interval(1, 3), NaN>>

\* C6, as claimed: when all of the (two or more) tokens are numbers, the
\* result is the column cut into intervals or the unchanged column; the
\* tokens never label quantile groups.
C6_NumericTokensNeverLabel ==
    (/\ CustomBucketed
     /\ ContainsComma(call.custom_ranges) /\ AllNumeric(call.custom_ranges))
    => \/ result.col = call.series
       \/ /\ Len(result.col) = Len(call.series)
          /\ \A i \in 1..Len(result.col) : result.col[i].kind \in {"interval", "nan"}

FixedBoundaryDimensions ==
    {"age", "days_since_signup", "days_since_last_purchase", "total_revenue", "ltv",
     "total_orders"}

\* C7, as claimed: a built-in fixed-boundary strategy gives every value from
\* its lowest boundary to its highest, the lowest boundary 0 included,
\* exactly one of its labels.
C7_BuiltinCoversItsSpan ==
    (/\ Done("apply_bucketing")
     /\ call.dimension \in FixedBoundaryDimensions
     /\ Registered(InitialBucketDefinitions, call.dimension, call.bucket_type)
     /\ Lookup(InitialBucketDefinitions, call.dimension, call.bucket_type).fn = "cut")
    => LET strategy == Lookup(InitialBucketDefinitions, call.dimension, call.bucket_type)
           b == strategy.bins
       IN  /\ result.err = ""
           /\ \A i \in 1..Len(call.series) :
                 (b[1] <= call.series[i].lo /\ call.series[i].lo <= b[Len(b)])
                     => \E k \in 1..Len(strategy.labels) :
                            result.col[i] = Label(strategy.labels[k])

Compared == Done("compare_segments") /\ result.err = ""

Cells(pivot) == pivot.index \X pivot.columns

\* C2, as claimed: where the aligned second table holds 0 the percentage
\* difference is exactly 0, never infinite and never NaN.
C2_ZeroDenominatorGivesZero ==
    Compared =>
        \A rc \in Cells(result.pivot2) :
            result.pivot2.values[rc] = 0
                => /\ result.percentage_difference[rc].kind = "finite"
                   /\ result.percentage_difference[rc].num = 0

\* The table create_pivot_table returns for one of the two input tables of
\* the current compare_segments call.
Original(df) ==
    create_pivot_table(InitialBucketDefinitions, df, call.x_axis, call.y_axis, call.metric, call.x_bucket_type, call.y_bucket_type, <<>>, <<>>)

AlignedTo(aligned, original, all_index, all_columns) ==
    /\ aligned.index = all_index
    /\ aligned.columns = all_columns
    /\ DOMAIN aligned.values = all_index \X all_columns
    /\ \A rc \in all_index \X all_columns :
           aligned.values[rc] = IF rc \in Cells(original) THEN original.values[rc] ELSE 0

\* C8: both aligned tables are indexed by the union of the row labels and
\* the union of the column labels of the two pivot tables, keep every
\* original cell, and hold 0 in every cell the alignment introduces.
C8_AlignedOnUnion ==
    Compared =>
        LET all_index == Original(df1).index \cup Original(df2).index
            all_columns == Original(df1).columns \cup Original(df2).columns
        IN  /\ AlignedTo(result.pivot1, Original(df1), all_index, all_columns)
            /\ AlignedTo(result.pivot2, Original(df2), all_index, all_columns)

\* C8, witness: two non-empty pivot tables with disjoint row labels and
\* disjoint column labels were compared.
C8_Witness ==
    /\ Compared
    /\ Original(df1).index # {} /\ Original(df2).index # {}
    /\ Original(df1).index \cap Original(df2).index = {}
    /\ Original(df1).columns \cap Original(df2).columns = {}
    /\ \E rc \in Cells(Original(df1)) : result.pivot1.values[rc] # 0
    /\ \E rc \in Cells(Original(df2)) : result.pivot2.values[rc] # 0

\* C9: the absolute difference is pivot1 - pivot2 in every cell, and where
\* pivot2 is not 0 the percentage difference is (pivot1 - pivot2) / pivot2 * 100.
C9_Differences ==
    Compared =>
        \A rc \in Cells(result.pivot1) :
            LET a == result.pivot1.values[rc]
                b == result.pivot2.values[rc]
                pct == result.percentage_difference[rc]
            IN  /\ result.absolute_difference[rc] = a - b
                /\ b # 0 => /\ pct.kind = "finite"
                             /\ pct.den # 0
                             /\ pct.num * b = (a - b) * 100 * pct.den

\* C9, witness: a cell where both tables hold different values, the second
\* not 0.
C9_Witness ==
    /\ Compared
    /\ \E rc \in Cells(result.pivot1) :
           /\ result.pivot2.values[rc] # 0
           /\ result.pivot1.values[rc] # 0
           /\ result.pivot1.values[rc] # result.pivot2.values[rc]

\* C10: in a session of calls on one engine, bucket_definitions stays as
\* constructed, and a call of create_pivot_table that repeats the arguments
\* of the one before it (other methods may have run in between) returns the
\* same table.
C10_IdempotentAndStateless ==
    /\ bucket_definitions = InitialBucketDefinitions
    /\ prev.repeated => prev.last = prev.first

\* C10, witness: a bucketed pivot table was built twice, with other methods
\* run in between, and has cells.
C10_Witness ==
    /\ Done("create_pivot_table")
    /\ prev.repeated /\ prev.between
    /\ prev.args.x_bucket_type = "Low/Medium/High"
    /\ prev.first.err = "" /\ prev.first.index # {}
    /\ bucket_definitions = InitialBucketDefinitions

\* C11: a step of create_pivot_table or compare_segments, whether the call
\* returns or raises, leaves both input tables as they were.
C11_InputTablesUntouched ==
    [][(Running("create_pivot_table") \/ Running("compare_segments"))
          => (df1' = df1 /\ df2' = df2)]_vars

\* C11, witness: create_pivot_table has bucketed a column of a two-row table
\* with custom ranges and returned a table with cells.
C11_Witness ==
    /\ Done("create_pivot_table")
    /\ call.x_bucket_type = "Custom Buckets" /\ call.x_custom_ranges # <<>>
    /\ Len(df1.rows) = 2
    /\ \A i \in 1..2 : df1.rows[i].total_orders.kind = "num"
    /\ result.err = "" /\ result.index # {}
    /\ \A r \in result.index : r.kind = "interval"

\* The strategy names each dimension is registered with, in the order of
\* registration.
RegisteredNames(d) ==
    CASE d = "age" -> <<"Young/Old", "Three Groups", "Fine Grained">>
      [] d = "days_since_signup" -> <<"New/Established", "Quarterly", "Monthly">>
      [] d = "days_since_last_purchase" -> <<"Recent/Lapsed", "Recency Groups", "Weekly">>
      [] d = "signup_date" -> <<"By Year", "By Month", "By Quarter", "By Week">>
      [] d = "total_revenue" -> <<"Low/Medium/High", "Quartiles", "Detailed">>
      [] d = "ltv" -> <<"Low/Medium/High", "Quartiles", "Detailed">>
      [] d = "total_orders" -> <<"Low/Medium/High", "Detailed">>
      [] OTHER -> <<>>

\* C12: get_bucket_options lists 'No Bucketing' first, 'Custom Buckets' last
\* and the names registered for the dimension in between, in registration
\* order and without duplicates; for a dimension without strategies it lists
\* the two sentinels only.
C12_OptionsInRegistrationOrder ==
    Done("get_bucket_options") =>
        LET names == RegisteredNames(call.dimension)
            n == Len(result)
        IN  /\ n = Len(names) + 2
            /\ result[1] = "No Bucketing"
            /\ result[n] = "Custom Buckets"
            /\ \A i \in 1..Len(names) : result[i + 1] = names[i]
            /\ \A i, j \in 1..n : result[i] = result[j] => i = j
            /\ call.dimension \notin DOMAIN InitialBucketDefinitions
                   => result = <<"No Bucketing", "Custom Buckets">>

\* C12, witness: the options of a dimension with three strategies and of one
\* with none have been listed.
C12_Witness ==
    /\ Done("get_bucket_options")
    /\ \/ /\ call.dimension = "age"
          /\ result = <<"No Bucketing", "Young/Old", "Three Groups", "Fine Grained",
                        "Custom Buckets">>
       \/ /\ call.dimension = "gender"
          /\ result = <<"No Bucketing", "Custom Buckets">>

\* The field a metric aggregates ("" for Count, which aggregates none).
BackingField(metric) ==
    CASE metric = "Total Revenue" -> "total_revenue"
      [] metric = "Avg LTV" -> "ltv"
      [] metric = "Retention Rate" -> "is_retained"
      [] metric = "Avg AOV" -> "average_order_value"
      [] metric = "Total Orders" -> "total_orders"
      [] OTHER -> ""

AxesPresent == call.x_axis \in df1.columns /\ call.y_axis \in df1.columns

\* C13: create_pivot_table raises when the row or the column dimension is
\* not a field of the table, whatever the metric, and when the backing field
\* of the metric is not a field of the table; Count needs no backing field.
C13_MissingFieldRaises ==
    Done("create_pivot_table") =>
        /\ ~AxesPresent => result.err # ""
        /\ (/\ call.metric \in MetricNames \ {"Count"}
            /\ BackingField(call.metric) \notin df1.columns) => result.err # ""
        /\ (call.metric = "Count" /\ AxesPresent) => result.err = ""

\* C13, witness: both dimensions exist and were read, the table has rows,
\* and the call for the mean of the missing field ltv raised.
C13_Witness ==
    /\ Done("create_pivot_table")
    /\ call.metric = "Avg LTV"
    /\ AxesPresent /\ "ltv" \notin df1.columns /\ Len(df1.rows) = 2
    /\ result.err = "KeyError"

\* The rows of df1 that fall in the cell rc of the current call's table.
RowsIn(rc) ==
    LET x == AxisData(call.x_axis, call.x_bucket_type, call.x_custom_ranges).col
        y == AxisData(call.y_axis, call.y_bucket_type, call.y_custom_ranges).col
    IN  {i \in 1..Len(df1.rows) : x[i] = rc[1] /\ y[i] = rc[2]}

\* C14: every cell of a returned table holds a number, whatever the metric:
\* none is NaN, and a pair of labels into which no row fell holds 0.
C14_EveryCellDefined ==
    (Done("create_pivot_table") /\ result.err = "") =>
        /\ result.nan = {}
        /\ DOMAIN result.values = Cells(result)
        /\ \A rc \in Cells(result) : RowsIn(rc) = {} => result.values[rc] = 0

\* C14, witness: a table of means with a pair of labels without rows.
C14_Witness ==
    /\ Done("create_pivot_table") /\ result.err = ""
    /\ call.metric = "Avg LTV"
    /\ \E rc \in Cells(result) : RowsIn(rc) = {} /\ result.values[rc] = 0
    /\ \E rc \in Cells(result) : RowsIn(rc) # {} /\ result.values[rc] = 3250

\* C15: with Retention Rate a cell of n >= 1 rows, k of them retained, holds
\* 100 * k / n to one decimal place (the value, carried in thousandths, is
\* a whole number of tenths and the nearest one to 100 * k / n).
C15_RetentionRatePercent ==
    (/\ Done("create_pivot_table") /\ result.err = ""
     /\ call.metric = "Retention Rate")
    => \A rc \in Cells(result) :
           LET n == Cardinality(RowsIn(rc))
               k == Cardinality({i \in RowsIn(rc) : df1.rows[i].is_retained = Bool(TRUE)})
               v == result.values[rc]
               d == n * (v \div 100) - 1000 * k
           IN  n >= 1 =>
                   /\ v % 100 = 0
                   /\ 2 * d <= n /\ -2 * d <= n
                   /\ (n = 4 /\ k = 3) => v = 75000

\* C15, witness: a cell with four rows, three of them retained, holds 75.0.
C15_Witness ==
    /\ Done("create_pivot_table") /\ result.err = ""
    /\ call.metric = "Retention Rate"
    /\ \E rc \in Cells(result) :
           /\ Cardinality(RowsIn(rc)) = 4
           /\ Cardinality({i \in RowsIn(rc) : df1.rows[i].is_retained = Bool(TRUE)}) = 3
           /\ result.values[rc] = 75000

\* C19: with a metric that is none of the six names create_pivot_table
\* raises, also when both dimensions exist and were bucketed.
C19_UnknownMetricRaises ==
    (Done("create_pivot_table") /\ call.metric \notin MetricNames) => result.err # ""

\* C19, witness: both dimensions exist, the orders were bucketed, and the
\* call with metric 'Median LTV' raised on the unbound table.
C19_Witness ==
    /\ Done("create_pivot_table") /\ call.metric \notin MetricNames
    /\ AxesPresent /\ df1.columns = MetricFields /\ Len(df1.rows) = 2
    /\ call.y_bucket_type = "Low/Medium/High"
    /\ AxisData(call.x_axis, call.x_bucket_type, call.x_custom_ranges).err = ""
    /\ AxisData(call.y_axis, call.y_bucket_type, call.y_custom_ranges).err = ""
    /\ result.err = "UnboundLocalError"

\* Custom numeric boundaries, in ascending order, are supplied for a numeric
\* axis of the current create_pivot_table call.
CustomNumeric(axis, bucket_type, custom_ranges) ==
    /\ bucket_type = "Custom Buckets" /\ custom_ranges # <<>>
    /\ ContainsComma(custom_ranges) /\ AllNumeric(custom_ranges)
    /\ StrictlyAscending(Boundaries(custom_ranges))
    /\ axis \in df1.columns /\ IsNumeric(Column(df1, axis))

\* Row i has a bucket on the axis: between the lowest and the highest
\* boundary when the axis has custom numeric boundaries.
OnAxis(i, axis, bucket_type, custom_ranges) ==
    IF CustomNumeric(axis, bucket_type, custom_ranges)
    THEN LET b == Boundaries(custom_ranges)
             v == df1.rows[i][axis].lo
         IN  b[1] <= v /\ v <= b[Len(b)]
    ELSE AxisData(axis, bucket_type, custom_ranges).col[i].kind # "nan"

Within(labels, custom_ranges) ==
    LET b == Boundaries(custom_ranges)
    IN  \A l \in labels : l.kind = "interval" /\ b[1] <= l.lo /\ l.hi <= b[Len(b)]

\* C16: with custom numeric boundaries on an axis, a row whose value lies
\* outside [lowest boundary, highest boundary] is in no cell: the Count
\* cells sum to the number of rows inside on both axes, the Total Orders
\* cells to the orders of those rows, and every label of the axis is an
\* interval between the boundaries.
C16_OutOfRangeInNoCell ==
    (/\ Done("create_pivot_table") /\ result.err = ""
     /\ \/ CustomNumeric(call.x_axis, call.x_bucket_type, call.x_custom_ranges)
        \/ CustomNumeric(call.y_axis, call.y_bucket_type, call.y_custom_ranges))
    => LET inside == {i \in 1..Len(df1.rows) :
                         /\ OnAxis(i, call.x_axis, call.x_bucket_type, call.x_custom_ranges)
                         /\ OnAxis(i, call.y_axis, call.y_bucket_type, call.y_custom_ranges)}
       IN  /\ call.metric = "Count" => CellSum(result) = Cardinality(inside)
           /\ call.metric = "Total Orders" =>
                  CellSum(result) = SumOver(inside, [i \in inside |-> df1.rows[i].total_orders.lo])
           /\ CustomNumeric(call.x_axis, call.x_bucket_type, call.x_custom_ranges)
                  => Within(result.index, call.x_custom_ranges)
           /\ CustomNumeric(call.y_axis, call.y_bucket_type, call.y_custom_ranges)
                  => Within(result.columns, call.y_custom_ranges)

\* C16, witness: of two rows with 3 and 12 orders, under the boundaries 1,3
\* only the first is in the Total Orders table.
C16_Witness ==
    /\ Done("create_pivot_table") /\ result.err = ""
    /\ call.metric = "Total Orders"
    /\ call.x_axis = "total_orders" /\ call.y_axis = "gender"
    /\ CustomNumeric(call.x_axis, call.x_bucket_type, call.x_custom_ranges)
    /\ Len(df1.rows) = 2
    /\ df1.rows[1].total_orders = Num(3) /\ df1.rows[2].total_orders = Num(12)
    /\ result.index = {Interval(1, 3)}
    /\ CellSum(result) = 3

Plain(bucket_type) ==
    IF bucket_type = "Custom Buckets" THEN "No Bucketing" ELSE bucket_type

\* C18: compare_segments hands no custom ranges on, and 'Custom Buckets'
\* without ranges leaves a column as it is: called with 'Custom Buckets' on
\* an axis it returns what it returns with 'No Bucketing' on that axis.
C18_CompareIgnoresCustomBuckets ==
    (/\ Done("compare_segments")
     /\ "Custom Buckets" \in {call.x_bucket_type, call.y_bucket_type})
    => /\ result = compare_segments(InitialBucketDefinitions, df1, df2, call.x_axis,
                                    call.y_axis, call.metric, Plain(call.x_bucket_type),
                                    Plain(call.y_bucket_type))
       /\ \A axis \in {call.x_axis, call.y_axis} : \A df \in {df1, df2} :
              apply_bucketing(InitialBucketDefinitions, Column(df, axis), axis,
                              "Custom Buckets", <<>>) = Returned(Column(df, axis))

\* C18, witness: two tables were compared with 'Custom Buckets' on the
\* orders, and the row labels of the result are the raw numbers of orders.
C18_Witness ==
    /\ Compared
    /\ call.x_axis = "total_orders" /\ call.x_bucket_type = "Custom Buckets"
    /\ Len(df1.rows) = 2 /\ Len(df2.rows) = 1
    /\ result.pivot1.index = {Num(0), Num(3)}
    /\ \E rc \in Cells(result.pivot1) : result.absolute_difference[rc] # 0

\* The row satisfies the predicate of an audience item as the definitions
\* are meant: 'between' with its two limits, 'in' with its list, the
\* comparisons with their value.
Satisfies(row, item) ==
    LET cell == row[item.column]
        operator == item.spec[1]
    IN  CASE operator = ">" -> cell.lo > item.spec[2][1].lo
          [] operator = "<" -> cell.lo < item.spec[2][1].lo
          [] operator = ">=" -> cell.lo >= item.spec[2][1].lo
          [] operator = "<=" -> cell.lo <= item.spec[2][1].lo
          [] operator = "==" -> cell = item.spec[2][1]
          [] operator = "!=" -> cell # item.spec[2][1]
          [] operator = "in" -> cell \in Range(item.spec[2])
          [] operator = "between" ->
               item.spec[2][1].lo <= cell.lo /\ cell.lo <= item.spec[3][1].lo

InAudience(row, name) ==
    LET items == get_audience_definitions[name]
    IN  \A k \in 1..Len(items) : Satisfies(row, items[k])

\* C17, as claimed: for every defined audience filter_by_audience returns,
\* without raising, the rows that satisfy all the predicates of the
\* audience, in their order; 'All Users' returns all rows.
C17_AudienceFilter ==
    Done("filter_by_audience") =>
        LET Member(row) == InAudience(row, call.audience_name)
        IN  /\ result.err = ""
            /\ result.rows = SelectSeq(df1.rows, Member)
            /\ call.audience_name = "All Users" => result.rows = df1.rows

====
